---------------------------- MODULE Spec2Model ----------------------------
(***************************************************************************)
(* Model of the game engine inside TicTacToeApp (src/tic_tac_toe_gui.py). *)
(*                                                                         *)
(* The program is single-threaded and event-driven.  Its callbacks are the *)
(* nine grid buttons (on_button_click), the "Reset Game" button            *)
(* (reset_game), the two "Settings" menu entries (set_mode) and the timer  *)
(* callback that root.after(500, self.computer_move) registers.            *)
(*                                                                         *)
(* A callback does not always run to completion in one piece:              *)
(* messagebox.showinfo is modal and runs the Tk event loop until its OK    *)
(* button is pressed.  While a dialog is open it holds the input grab, so  *)
(* no grid button, Reset button or menu entry can be used, but timer       *)
(* callbacks that come due do run, inside the callback that opened the     *)
(* dialog and before the reset_game() that follows showinfo in the code.   *)
(* A computer move run this way may call showinfo again, nested in the    *)
(* first call.  Variable dialogs is the stack of showinfo calls that have  *)
(* not returned.  Tk shows every message box in the same window and every  *)
(* showinfo waits on the same Tcl variable, so one press of OK ends all    *)
(* the nested waits: the calls return innermost first, each followed by    *)
(* the reset_game() and return that follow it in the code, and no event is *)
(* handled in between.  Widgets' texts are copies of board and             *)
(* current_player and are not modelled.                                    *)
(***************************************************************************)
EXTENDS Integers, FiniteSets, Sequences

\* Largest number of root.after callbacks allowed to be pending at once.
\* The program has no such limit; a click that would register one more is
\* not taken by the model.
MaxTimers == 2

\* Largest magnitude of an index handed to on_button_click from outside the
\* grid buttons.
MaxIndex == 10

Cells == 0..8
Marks == {"X", "O"}
Modes == {"PvE", "PvP"}

\* set_mode stores whatever string it is given; "Easy" stands for the
\* strings no menu entry passes.
OtherModes == {"Easy"}

VARIABLES
    board,           \* self.board: 9 cells, each "", "X" or "O"
    current_player,  \* self.current_player
    game_mode,       \* self.game_mode
    pending,         \* number of registered, not yet fired, root.after callbacks
    dialogs,         \* the open messagebox.showinfo dialogs, innermost last
    raised,          \* the exception the call that just ran let escape, or "none"
    stale,           \* history: how many of the pending callbacks were registered
                     \*          before the most recent reset_game()
    last             \* history: the step that was just taken and what it saw on entry

vars == <<board, current_player, game_mode, pending, dialogs, raised, stale, last>>

--------------------------------------------------------------------------
(* Helpers on boards *)

EmptyBoard == [i \in Cells |-> ""]

Count(b, m) == Cardinality({i \in Cells : b[i] = m})

NumMarks(b) == Cardinality({i \in Cells : b[i] # ""})

--------------------------------------------------------------------------
(* The program, one operator per method.  s is the record of the object's *)
(* fields plus the Tk timer queue length and the open dialogs.            *)

State == [board |-> board, current_player |-> current_player,
          game_mode |-> game_mode, pending |-> pending, dialogs |-> dialogs]

winning_combos_NoAntiDiagonal ==
    << <<0, 1, 2>>, <<3, 4, 5>>, <<6, 7, 8>>,
       <<0, 3, 6>>, <<1, 4, 7>>, <<2, 5, 8>>,
       <<0, 4, 8>> >>

\* check_winner's local list of winning combinations
winning_combos ==
    << <<0, 1, 2>>, <<3, 4, 5>>, <<6, 7, 8>>,
       <<0, 3, 6>>, <<1, 4, 7>>, <<2, 5, 8>>,
       <<0, 4, 8>>, <<2, 4, 6>> >>

check_winner(b, player) ==
    \E k \in 1..Len(winning_combos) :
        /\ b[winning_combos[k][1]] = player
        /\ b[winning_combos[k][2]] = player
        /\ b[winning_combos[k][3]] = player

switch_player(s) ==
    [s EXCEPT !.current_player = IF @ = "X" THEN "O" ELSE "X"]

reset_game_KeepsTurn(s) ==
    [s EXCEPT !.board = EmptyBoard]

reset_game(s) ==
    [s EXCEPT !.current_player = "X", !.board = EmptyBoard]

\* messagebox.showinfo(...) is entered: the dialog opens and the calling
\* method waits in it.
showinfo(s, text) == [s EXCEPT !.dialogs = Append(@, text)]

ModeDialogs == {"mode " \o m : m \in Modes \cup OtherModes}

RECURSIVE after_showinfo_NoReturn(_)
RECURSIVE after_showinfo_ModeNoReset(_)
RECURSIVE after_showinfo(_)

after_showinfo_NoReturn(s) ==
    LET text == s.dialogs[Len(s.dialogs)]
        s1 == reset_game([s EXCEPT !.dialogs = SubSeq(@, 1, Len(@) - 1)])
        s2 == switch_player(s1)
        s3 == IF text \in ModeDialogs
              THEN s1
              ELSE IF s2.game_mode = "PvE" /\ s2.current_player = "O"
                   THEN [s2 EXCEPT !.pending = @ + 1]
                   ELSE s2
    IN  IF s3.dialogs = << >> THEN s3 ELSE after_showinfo_NoReturn(s3)

after_showinfo_ModeNoReset(s) ==
    LET text == s.dialogs[Len(s.dialogs)]
        s1 == [s EXCEPT !.dialogs = SubSeq(@, 1, Len(@) - 1)]
        s2 == IF text \in ModeDialogs THEN s1 ELSE reset_game(s1)
    IN  IF s2.dialogs = << >> THEN s2 ELSE after_showinfo_ModeNoReset(s2)

\* OK is pressed.  The innermost showinfo returns and the method that
\* called it carries on: on_button_click with reset_game() and return
\* (lines 117-118, 123-124), set_mode with reset_game() (line 97).  That
\* method was running inside the next showinfo out, whose wait has ended
\* too, and so on until no call is left.
after_showinfo(s) ==
    LET s1 == reset_game([s EXCEPT !.dialogs = SubSeq(@, 1, Len(@) - 1)])
    IN  IF s1.dialogs = << >> THEN s1 ELSE after_showinfo(s1)

on_button_click_Overwrites(s, index) ==
    LET s1 == [s EXCEPT !.board[index] = s.current_player] IN
    IF check_winner(s1.board, s1.current_player)
    THEN showinfo(s1, "wins " \o s1.current_player)
    ELSE IF \A i \in Cells : s1.board[i] # ""
    THEN showinfo(s1, "draw")
    ELSE LET s2 == switch_player(s1) IN
         IF s2.game_mode = "PvE" /\ s2.current_player = "O"
         THEN [s2 EXCEPT !.pending = @ + 1]
         ELSE s2

on_button_click_NoTimer(s, index) ==
    IF s.board[index] # ""
    THEN s
    ELSE LET s1 == [s EXCEPT !.board[index] = s.current_player] IN
         IF check_winner(s1.board, s1.current_player)
         THEN showinfo(s1, "wins " \o s1.current_player)
         ELSE IF \A i \in Cells : s1.board[i] # ""
         THEN showinfo(s1, "draw")
         ELSE switch_player(s1)

\* on_button_click up to its return or up to the showinfo it waits in
on_button_click(s, index) ==
    IF s.board[index] # ""
    THEN s
    ELSE LET s1 == [s EXCEPT !.board[index] = s.current_player] IN
         IF check_winner(s1.board, s1.current_player)
         THEN showinfo(s1, "wins " \o s1.current_player)
         ELSE IF \A i \in Cells : s1.board[i] # ""
         THEN showinfo(s1, "draw")
         ELSE LET s2 == switch_player(s1) IN
              IF s2.game_mode = "PvE" /\ s2.current_player = "O"
              THEN [s2 EXCEPT !.pending = @ + 1]
              ELSE s2

\* set_mode up to the showinfo it waits in
set_mode(s, mode) ==
    showinfo([s EXCEPT !.game_mode = mode], "mode " \o mode)

available_moves_AnyCell(b) == Cells

available_moves_FirstOnly(b) ==
    {i \in Cells : b[i] = "" /\ \A j \in Cells : j < i => b[j] # ""}

\* computer_move: the cells random.choice may return
available_moves(b) == {i \in Cells : b[i] = ""}

\* Python list subscription on the 9-element lists board and buttons:
\* a negative index counts from the end, anything outside -9..8 raises.
index_error(index) == index < -9 \/ index > 8

list_index(index) == IF index < 0 THEN index + 9 ELSE index

\* Indices no grid button passes
OutOfRange == (-MaxIndex .. -1) \cup (9 .. MaxIndex)

--------------------------------------------------------------------------
(* History record: what the step saw on entry and what it did. *)

\* op      which step ran: a callback ("click", "reset_game", "set_mode",
\*         "computer_move") or the press of OK ("ok")
\* arg     the cell index (click, computer_move), the mode (set_mode) or
\*         the stack of dialogs the press closed (ok)
\* turn    current_player on entry
\* mode    game_mode on entry
\* nmarks  number of marks on the board on entry
\* depth   number of dialogs open on entry
\* old     the timer callback that fired had been registered before the
\*         most recent reset_game()
\* placed  the step wrote a mark into a cell
\* after   the board right after that mark was written
\* shown   the text of the dialog the step opened, or "none"
\* step    k when this click was the k-th of an uninterrupted run of clicks on
\*         cells 0, 1, ..., k-1 in that order that began on an empty board
\*         in PvP mode; 0 otherwise
Entry(op, arg, old) ==
    [op |-> op, arg |-> arg, turn |-> current_player, mode |-> game_mode,
     nmarks |-> NumMarks(board), depth |-> Len(dialogs), old |-> old,
     placed |-> FALSE, after |-> EmptyBoard, shown |-> "none", step |-> 0]

\* The board after the first k clicks of the run 0, 1, 2, ... with X first
InOrderBoard(k) ==
    [i \in Cells |-> IF i < k THEN (IF i % 2 = 0 THEN "X" ELSE "O") ELSE ""]

InOrderStep(index) ==
    IF /\ game_mode = "PvP"
       /\ board = InOrderBoard(index)
       /\ (index = 0 \/ (last.op = "click" /\ last.step = index))
    THEN index + 1
    ELSE 0

Placed(e, index) ==
    IF board[index] = ""
    THEN [e EXCEPT !.placed = TRUE,
                   !.after = [board EXCEPT ![index] = current_player]]
    ELSE e

\* the dialog that s, the state a step produced, has on top of those that
\* were already open
Shown(e, s) ==
    IF Len(s.dialogs) > Len(dialogs)
    THEN [e EXCEPT !.shown = s.dialogs[Len(s.dialogs)]]
    ELSE e

--------------------------------------------------------------------------
Init ==
    /\ board = EmptyBoard
    /\ current_player = "X"
    /\ game_mode = "PvE"
    /\ pending = 0
    /\ dialogs = << >>
    /\ raised = "none"
    /\ stale = 0
    /\ last = [op |-> "init", arg |-> "-", turn |-> "X", mode |-> "PvE",
               nmarks |-> 0, depth |-> 0, old |-> FALSE,
               placed |-> FALSE, after |-> EmptyBoard, shown |-> "none",
               step |-> 0]

Commit(s) ==
    /\ board' = s.board
    /\ current_player' = s.current_player
    /\ game_mode' = s.game_mode
    /\ pending' = s.pending
    /\ dialogs' = s.dialogs
    /\ raised' = "none"

\* The history variables
hist == <<stale, last>>

\* No dialog holds the grab: buttons and menu can be used.
Idle == dialogs = << >>

\* A grid button is clicked by a person: what the program does.
ClickStep(index) ==
    LET s == on_button_click(State, index) IN
    /\ Idle
    /\ s.pending <= MaxTimers
    /\ Commit(s)

\* A grid button is clicked by a person.
Click(index) ==
    LET s == on_button_click(State, index) IN
    /\ ClickStep(index)
    /\ stale' = stale
    /\ last' = [Shown(Placed(Entry("click", index, FALSE), index), s)
                  EXCEPT !.step = InOrderStep(index)]

ResetStep ==
    /\ Idle
    /\ Commit(reset_game(State))

\* The "Reset Game" button is clicked.
ResetClick ==
    /\ ResetStep
    /\ stale' = pending
    /\ last' = Entry("reset_game", "-", FALSE)

SetModeStep(mode) ==
    /\ Idle
    /\ Commit(set_mode(State, mode))

\* A "Settings" menu entry is chosen.
SetMode(mode) ==
    /\ SetModeStep(mode)
    /\ stale' = stale
    /\ last' = Shown(Entry("set_mode", mode, FALSE), set_mode(State, mode))

OkStep ==
    /\ dialogs # << >>
    /\ Commit(after_showinfo(State))

\* OK is pressed in the message box.
Ok ==
    /\ OkStep
    /\ stale' = pending
    /\ last' = Entry("ok", dialogs, FALSE)

\* computer_move has drawn move with random.choice and "clicks" that cell.
\* s0 is the state with the fired callback removed from the timer queue.
ComputerClickStep(move) ==
    LET s0 == [State EXCEPT !.pending = @ - 1] IN
    /\ pending > 0
    /\ move \in available_moves(board)
    /\ Commit(on_button_click(s0, move))

ComputerClick(move) ==
    LET s0 == [State EXCEPT !.pending = @ - 1]
        old == stale > 0
        s == on_button_click(s0, move)
    IN  /\ ComputerClickStep(move)
        /\ stale' = IF old THEN stale - 1 ELSE 0
        /\ last' = Shown(Placed(Entry("computer_move", move, old), move), s)

TimerStep ==
    /\ pending > 0
    /\ IF available_moves(board) # {}
       THEN \E move \in Cells : ComputerClickStep(move)
       ELSE Commit([State EXCEPT !.pending = @ - 1])

\* A callback registered with root.after(500, self.computer_move) comes due.
\* Tk removes it from the timer queue, then runs computer_move, whether the
\* event loop running is mainloop's or an open dialog's.  Callbacks with
\* equal delays fire in the order they were registered.
TimerFire ==
    /\ pending > 0
    /\ IF available_moves(board) # {}
       THEN \E move \in Cells : ComputerClick(move)
       ELSE /\ Commit([State EXCEPT !.pending = @ - 1])
            /\ stale' = IF stale > 0 THEN stale - 1 ELSE 0
            /\ last' = Entry("computer_move", "-", stale > 0)

Next ==
    \/ \E index \in Cells : Click(index)
    \/ ResetClick
    \/ \E mode \in Modes : SetMode(mode)
    \/ Ok
    \/ TimerFire

Spec == Init /\ [][Next]_vars

\* The same steps without the history variables, which stay as Init set
\* them: the program's own state only.
EngineClick(index) == ClickStep(index) /\ UNCHANGED hist

EngineReset == ResetStep /\ UNCHANGED hist

EngineSetMode(mode) == SetModeStep(mode) /\ UNCHANGED hist

EngineOk == OkStep /\ UNCHANGED hist

EngineTimer == TimerStep /\ UNCHANGED hist

NextEngine ==
    \/ \E index \in Cells : EngineClick(index)
    \/ EngineReset
    \/ \E mode \in Modes : EngineSetMode(mode)
    \/ EngineOk
    \/ EngineTimer

\* Tk's event loop, mainloop's or a dialog's, runs every registered
\* root.after callback once its delay has passed: a pending computer_move
\* is not postponed forever.  Nothing makes a person press OK.
SpecFair == Init /\ [][NextEngine]_vars /\ WF_vars(EngineTimer)

\* The program's own state, no fairness
SpecEngine == Init /\ [][NextEngine]_vars

\* on_button_click(index) is called directly with an index outside 0..8.
\* The subscription self.board[index] at its first line either raises
\* IndexError, which leaves the method before any assignment, or denotes
\* cell index + 9, with which the method carries on.
Call(index) ==
    /\ Idle
    /\ IF index_error(index)
       THEN /\ UNCHANGED <<board, current_player, game_mode, pending, dialogs>>
            /\ raised' = "IndexError"
       ELSE LET s == on_button_click(State, list_index(index)) IN
            /\ s.pending <= MaxTimers
            /\ Commit(s)
    /\ UNCHANGED hist

\* switch_player() is called directly.
CallSwitchPlayer ==
    /\ Idle
    /\ Commit(switch_player(State))
    /\ UNCHANGED hist

\* computer_move() is called directly: no timer is consumed.
CallComputerMove ==
    /\ Idle
    /\ IF available_moves(board) # {}
       THEN \E move \in available_moves(board) :
               LET s == on_button_click(State, move) IN
               /\ s.pending <= MaxTimers
               /\ Commit(s)
       ELSE Commit(State)
    /\ UNCHANGED hist

\* The engine driven through its methods directly, as in the interface the
\* presentation layer uses: on_button_click with an index no grid button
\* passes, set_mode with a string no menu entry passes, switch_player()
\* and computer_move(), plus the steps above (reset_game(), set_mode and
\* on_button_click with the arguments the widgets pass, OK and the timer).
\* The history variables stay as Init set them.
NextApi ==
    \/ \E index \in OutOfRange : Call(index)
    \/ \E mode \in OtherModes : EngineSetMode(mode)
    \/ CallSwitchPlayer
    \/ CallComputerMove
    \/ NextEngine

SpecApi == Init /\ [][NextApi]_vars

--------------------------------------------------------------------------
(* Reference notions used by the properties *)

\* The eight lines of the game, as sets of cells
FixedLines ==
    { {0, 1, 2}, {3, 4, 5}, {6, 7, 8},
      {0, 3, 6}, {1, 4, 7}, {2, 5, 8},
      {0, 4, 8}, {2, 4, 6} }

HasLine(b, m) == \E L \in FixedLines : \A i \in L : b[i] = m

Full(b) == \A i \in Cells : b[i] # ""

DialogTexts == {"wins X", "wins O", "draw", "mode PvE", "mode PvP"}

TypeOK ==
    /\ board \in [Cells -> Marks \cup {""}]
    /\ current_player \in Marks
    /\ game_mode \in Modes
    /\ pending \in 0..MaxTimers
    /\ stale \in 0..pending
    /\ Len(dialogs) <= MaxTimers + 1
    /\ \A k \in 1..Len(dialogs) : dialogs[k] \in DialogTexts
    /\ raised \in {"none", "IndexError"}

--------------------------------------------------------------------------
\* C1: in every reachable state the number of X marks minus the number of
\* O marks is 0 or 1, whatever the interleaving of clicks, resets, mode
\* changes and timer firings.
C1_MarkBalance ==
    Count(board, "X") - Count(board, "O") \in {0, 1}

\* C2: after every successful move the outcome acted on (the dialog opened,
\* or none) is the reference evaluation of the board just after the mark
\* was placed: a win of m iff one of the eight lines is entirely m, a draw
\* iff the board is full with no complete line, otherwise no outcome (game
\* continues).
C2_OutcomeMatchesReference ==
    last.placed =>
        /\ \A m \in Marks : (last.shown = "wins " \o m) <=> HasLine(last.after, m)
        /\ (last.shown = "draw") <=>
               (Full(last.after) /\ \A m \in Marks : ~HasLine(last.after, m))
        /\ (last.shown = "none") <=>
               (~Full(last.after) /\ \A m \in Marks : ~HasLine(last.after, m))

\* a move that completed the diagonal (2,4,6) and was reported as a win
C2_Witness ==
    /\ last.placed
    /\ \E m \in Marks : /\ \A i \in {2, 4, 6} : last.after[i] = m
                        /\ last.shown = "wins " \o m

\* C3: every terminal outcome is followed by a reset: between callbacks
\* (no dialog open) the board has no complete line and at least one empty
\* cell; the move that completes a line or fills the ninth cell opens the
\* result dialog, and when that dialog returns the callback ends with the
\* board all empty and X to play.
C3_NoFinishedBoard ==
    /\ Idle => /\ \A m \in Marks : ~HasLine(board, m)
               /\ \E i \in Cells : board[i] = ""
    /\ (last.placed /\ (Full(last.after) \/ \E m \in Marks : HasLine(last.after, m)))
           => (last.shown \in {"wins X", "wins O", "draw"} /\ ~Idle)
    /\ last.op = "ok" => (board = EmptyBoard /\ current_player = "X")

\* the dialog of a win by O has just been closed and no dialog is left
C3_Witness ==
    /\ last.op = "ok"
    /\ last.arg = <<"wins O">>
    /\ last.turn = "O"
    /\ last.nmarks >= 6
    /\ Idle

\* C4: a move (human click or computer move) applied to a non-empty cell
\* changes neither the board, the turn nor the mode, shows no result, and
\* registers no computer move.
C4_OccupiedIsNoOp ==
    [][ (/\ last'.op \in {"click", "computer_move"}
         /\ last'.nmarks < 9
         /\ board[last'.arg] # "")
        => (/\ board' = board
            /\ current_player' = current_player
            /\ game_mode' = game_mode
            /\ dialogs' = dialogs
            /\ pending' <= pending) ]_vars

\* a click on an occupied cell has just been handled while it was O's turn in PvE
C4_Witness ==
    /\ last.op = "click"
    /\ ~last.placed
    /\ last.nmarks > 0
    /\ last.turn = "O"
    /\ last.mode = "PvE"

\* C5: the Reset Game callback, from any state, leaves an all-empty board,
\* X to play, and the mode it found.
C5_ResetYieldsFreshBoard ==
    last.op = "reset_game" =>
        /\ board = EmptyBoard
        /\ current_player = "X"
        /\ game_mode = last.mode

\* a reset of a game in progress, O to play, a computer move pending
C5_Witness ==
    /\ last.op = "reset_game"
    /\ last.nmarks >= 3
    /\ last.turn = "O"
    /\ pending > 0

\* C6: set_mode(mode), from any state and for either mode (the current one
\* included), sets the requested mode at once and, when its dialog (the
\* outermost of those open, since the menu is used with no dialog open)
\* returns, ends with that mode, an all-empty board and X to play.
C6_SetModeResets ==
    /\ last.op = "set_mode" =>
          (game_mode = last.arg /\ last.shown = "mode " \o last.arg)
    /\ (last.op = "ok" /\ last.arg[1] \in ModeDialogs) =>
          /\ last.arg[1] = "mode " \o game_mode
          /\ board = EmptyBoard
          /\ current_player = "X"

\* the dialog of a mode change has just been closed over a game in progress
C6_Witness ==
    /\ last.op = "ok"
    /\ last.arg = <<"mode PvP">>
    /\ last.nmarks >= 3
    /\ last.turn = "O"

\* C7: whenever the delayed computer move fires the turn is O, so every
\* mark the computer places is O.
C7_ComputerPlaysO ==
    last.op = "computer_move" => last.turn = "O"

\* C8: a computer move registered before a reset_game()/set_mode() never
\* places a mark after that reset has completed.
C8_PendingMoveDiscarded ==
    ~(last.op = "computer_move" /\ last.old /\ last.placed)

\* C9: after a person's X move in PvE has registered the computer move, the
\* next mark placed is the computer's: a click handled right after it does
\* not place a mark.
C9_NoMoveDuringDelay ==
    [][ (/\ last.op = "click" /\ last.placed
         /\ last.turn = "X" /\ last.mode = "PvE"
         /\ last.shown = "none"
         /\ last'.placed)
        => last'.op = "computer_move" ]_vars

\* C10: the computer move never runs while the mode is PvP: whenever the
\* timer callback fires and selects a cell, the mode is PvE.
C10_ComputerOnlyInPvE ==
    (last.op = "computer_move" /\ last.placed) => last.mode = "PvE"

\* C11: whenever the computer move fires on a board with an empty cell,
\* the cell it chooses was empty just before, every empty cell can be the
\* one chosen, and placing the mark changes exactly that cell.
C11_ComputerPicksAnyEmptyCell ==
    /\ [](pending > 0 =>
            \A i \in Cells :
                board[i] = "" =>
                    ENABLED (ComputerClickStep(i) /\ board'[i] = current_player))
    /\ [][ (EngineTimer /\ NumMarks(board) < 9)
           => \E i \in Cells :
                 /\ board[i] = ""
                 /\ board' = [board EXCEPT ![i] = current_player] ]_vars

\* a computer move made while a result dialog was open has put the eighth
\* mark on the board and opened a second dialog
C11_Witness ==
    /\ Len(dialogs) = 2
    /\ NumMarks(board) = 8

\* C12: when a computer move itself completes a line for its mark or fills
\* the last empty cell, it opens the result dialog without switching the
\* turn and without registering a further computer move, and when that
\* dialog returns the board is reset (all empty, X to play, mode
\* unchanged), again with no turn switch and no computer move registered.
C12_ComputerEndsGame ==
    [][ /\ (/\ last'.op = "computer_move"
            /\ last'.placed
            /\ (HasLine(last'.after, current_player) \/ Full(last'.after)))
           => (/\ last'.shown \in {"wins " \o current_player, "draw"}
               /\ current_player' = current_player
               /\ game_mode' = game_mode
               /\ pending' = pending - 1)
        /\ (/\ last.op = "computer_move"
            /\ last.shown # "none"
            /\ last'.op = "ok")
           => (/\ board' = EmptyBoard
               /\ current_player' = "X"
               /\ game_mode' = game_mode
               /\ pending' = pending) ]_vars

\* the computer, playing O in PvE, has just completed a line
C12_Witness ==
    /\ last.op = "computer_move"
    /\ last.placed
    /\ last.turn = "O"
    /\ last.mode = "PvE"
    /\ last.depth = 0
    /\ HasLine(last.after, "O")
    /\ last.shown = "wins O"

\* C13: in PvE, from a fresh board with no computer move pending, a person
\* plays X on a cell and the computer move it registered fires next: the
\* board then holds exactly two marks, X on that cell and one O on another
\* cell that was empty, and it is X's turn again.
C13_HumanThenComputer ==
    [][ (/\ last.op = "click" /\ last.placed
         /\ last.nmarks = 0 /\ last.mode = "PvE"
         /\ pending = 1 /\ stale = 0
         /\ last'.op = "computer_move")
        => (/\ NumMarks(board') = 2
            /\ board'[last.arg] = "X"
            /\ \E j \in Cells \ {last.arg} :
                  /\ board[j] = ""
                  /\ board' = [board EXCEPT ![j] = "O"]
            /\ current_player' = "X") ]_vars

\* the computer has answered the opening move of a PvE game
C13_Witness ==
    /\ last.op = "computer_move"
    /\ last.placed
    /\ last.nmarks = 1
    /\ last.turn = "O"
    /\ last.mode = "PvE"
    /\ last.depth = 0
    /\ ~last.old
    /\ NumMarks(board) = 2
    /\ current_player = "X"
    /\ pending = 0

\* C14: a move whose index is outside 0..8 is silently rejected: every
\* step that on_button_click makes of such an index leaves board, turn
\* and mode unchanged and lets no exception reach the caller.
C14_OutOfRangeRejected ==
    [][ \A index \in OutOfRange :
           Call(index)
           => (/\ board' = board
               /\ current_player' = current_player
               /\ game_mode' = game_mode
               /\ raised' = "none") ]_vars

\* C15 as stated: in PvP from a fresh board, clicking the cells in the order
\* 0,1,...,8 (X,O,X,...) completes no line before the ninth click, and the
\* ninth click fills the board and is reported as a draw.
C15_InOrderDraw ==
    last.step > 0 =>
        /\ last.step < 9 => last.shown = "none"
        /\ last.step = 9 => last.shown = "draw"

\* C15 amended: in PvP from a fresh board, clicking the cells in the order
\* 0,1,2,... (X,O,X,...) completes no line in the first six clicks; the
\* seventh click (X on cell 6) completes the line (2,4,6) and is reported
\* as a win for X, and closing that dialog resets the board with X to
\* play, so the run never reaches an eighth click and never ends in a draw.
C15_InOrderXWinsAtSeventh ==
    [][ /\ last'.step > 0 =>
              /\ last'.placed
              /\ board' = InOrderBoard(last'.step)
              /\ last'.step <= 7
              /\ last'.step < 7 =>
                    /\ last'.shown = "none"
                    /\ \A m \in Marks : ~HasLine(board', m)
              /\ last'.step = 7 =>
                    /\ \A i \in {2, 4, 6} : board'[i] = "X"
                    /\ last'.shown = "wins X"
                    /\ dialogs' = <<"wins X">>
        /\ (last.step = 7 /\ last'.op = "ok") =>
              /\ board' = EmptyBoard
              /\ current_player' = "X"
              /\ dialogs' = << >> ]_vars

\* the seventh click of the run has just been handled
C15_Witness ==
    /\ last.op = "click"
    /\ last.step = 7
    /\ last.arg = 6
    /\ last.mode = "PvP"

\* C16: in every state in which a callback can start (no dialog open, or a
\* timer pending) it is X's turn exactly when the board holds as many X as
\* O and O's turn exactly when X has one more mark than O.
C16_TurnMatchesBoard ==
    (Idle \/ pending > 0) =>
        /\ current_player = "X" <=> Count(board, "X") = Count(board, "O")
        /\ current_player = "O" <=> Count(board, "X") = Count(board, "O") + 1

\* C17: a successful move changes exactly one cell, from empty to the mark
\* whose turn it was, and no step other than a reset (Reset Game, or the
\* reset that follows the dialog of a mode change, a win or a draw) changes
\* a non-empty cell.
C17_WriteOnce ==
    [][ /\ last'.placed
           => \E i \in Cells :
                 /\ board[i] = ""
                 /\ board' = [board EXCEPT ![i] = current_player]
        /\ (\E i \in Cells : board[i] # "" /\ board'[i] # board[i])
           => /\ board' = EmptyBoard
              /\ last'.op \in {"reset_game", "ok"} ]_vars

\* a non-terminal move has just put the eighth mark on the board
C17_Witness ==
    /\ last.placed
    /\ last.shown = "none"
    /\ last.nmarks = 7
    /\ NumMarks(board) = 8

\* C18: whenever the delayed computer move fires, the board has an empty
\* cell, so computer_move always makes a move.
C18_ComputerNeverOnFullBoard ==
    last.op = "computer_move" => (last.nmarks < 9 /\ last.placed)

\* C19 as stated: between callbacks, if the mode is PvE and it is O's turn
\* then a computer move is pending; and, every registered timer eventually
\* firing, whenever it is O's turn in PvE it eventually is X's turn again.
C19_ComputerTurnNotStuck ==
    /\ []((Idle /\ game_mode = "PvE" /\ current_player = "O") => pending > 0)
    /\ (game_mode = "PvE" /\ current_player = "O") ~> (current_player = "X")

\* C19 amended: between callbacks, if the mode is PvE and it is O's turn
\* then a computer move is pending; and, every registered timer eventually
\* firing, whenever it is O's turn in PvE, eventually it is X's turn again
\* or a dialog is open, whose closing makes it X's turn.
C19_TurnEndsOrDialogOpen ==
    /\ []((Idle /\ game_mode = "PvE" /\ current_player = "O") => pending > 0)
    /\ (game_mode = "PvE" /\ current_player = "O")
           ~> (current_player = "X" \/ ~Idle)
    /\ [][EngineOk => current_player' = "X"]_vars

\* O to play in PvE with the computer move pending and no dialog open
C19_Witness ==
    /\ game_mode = "PvE"
    /\ current_player = "O"
    /\ pending = 1
    /\ Idle
    /\ NumMarks(board) = 5

==========================================================================
